---------------------------- MODULE Spec2Model ----------------------------
(***************************************************************************)
(* Model of couchdb_manager.py: the main window (CouchDBManager), the      *)
(* browse view (BrowseWindow), the JSON text of the editor pane and the    *)
(* Tk event loop that runs the handlers.                                    *)
(*                                                                         *)
(* A handler is one action: it takes the operator's inputs and the         *)
(* server's answers as parameters and runs to its end. lastOp, reqs,       *)
(* modals, payload and sent record what the handler did; the action        *)
(* mainloop, the return to the event loop, clears the record. The handlers *)
(* of one window neither read nor write the state of another window, so a  *)
(* behaviour follows the operator in the window that has the focus.        *)
(* SpecLoop models the event loop itself, with the handlers cut at the     *)
(* points where they hand control back to it.                               *)
(***************************************************************************)
EXTENDS Integers, Sequences, FiniteSets, TLC

(***************************************************************************)
(* Bounds of the model.                                                     *)
(***************************************************************************)
MaxTextLen == 4      \* longest editor text drawn in InitEditor, in tokens
MaxRows == 2         \* most rows a list widget holds
MaxDepth == 2        \* deepest nesting of handlers in the event loop
MaxQueue == 2        \* most clicks waiting in the event loop

(***************************************************************************)
(* JSON text.  A text is a sequence of tokens; a token is a record         *)
(* [k, s], k its class: "p" punctuation, "ws" whitespace, "num" a number   *)
(* literal, "str" a quoted string (s is the string without the quotes).    *)
(***************************************************************************)
Tok(k, s) == [k |-> k, s |-> s]
LC == Tok("p", "{")
RC == Tok("p", "}")
LB == Tok("p", "[")
RB == Tok("p", "]")
COMMA == Tok("p", ",")
COLON == Tok("p", ":")
SP == Tok("ws", " ")
NL == Tok("ws", "\n")
TStr(s) == Tok("str", s)
TNum(s) == Tok("num", s)

(* JSON values, as json.loads builds them. An object keeps its members in   *)
(* insertion order, like a Python dict.                                     *)
JStr(s) == [t |-> "str", v |-> s]
JNum(s) == [t |-> "num", v |-> s]
JArr(items) == [t |-> "arr", v |-> items]
JObj(members) == [t |-> "obj", v |-> members]
JLit(s) == [t |-> "lit", v |-> s]
JNull == JLit("null")
Member(k, x) == [key |-> k, val |-> x]

(* The number a literal denotes, written as repr() writes it: int literals  *)
(* stay, float literals are normalised (1e0 is the float 1.0).              *)
NumRepr(lit) ==
    CASE lit = "1e0" -> "1.0"
      [] lit = "1.0" -> "1.0"
      [] lit = "-0" -> "0"
      [] OTHER -> lit

(* dict[key] = val: an existing key keeps its place and takes the new value *)
PutKey(members, k, x) ==
    IF \E i \in 1..Len(members) : members[i].key = k
    THEN [i \in 1..Len(members) |->
             IF members[i].key = k THEN Member(k, x) ELSE members[i]]
    ELSE Append(members, Member(k, x))

(* key in dict *)
HasKey(members, k) == \E i \in 1..Len(members) : members[i].key = k

(* dict.get(key, default) *)
GetKey(members, k, default) ==
    IF HasKey(members, k)
    THEN members[CHOOSE i \in 1..Len(members) : members[i].key = k].val
    ELSE default

(* del dict[key] *)
DelKey(members, k) ==
    SelectSeq(members, LAMBDA m : m.key # k)

RECURSIVE SkipWs(_, _), SkipWsBack(_, _)
(* first position at or after i that holds no whitespace (Len+1 if none) *)
SkipWs(t, i) ==
    IF i <= Len(t) /\ t[i].k = "ws" THEN SkipWs(t, i + 1) ELSE i

(* last position at or before i that holds no whitespace (0 if none) *)
SkipWsBack(t, i) ==
    IF i >= 1 /\ t[i].k = "ws" THEN SkipWsBack(t, i - 1) ELSE i

(* str.strip(): leading and trailing whitespace removed *)
Strip(t) == SubSeq(t, SkipWs(t, 1), SkipWsBack(t, Len(t)))

ParseFail == [ok |-> FALSE, val |-> JNull, pos |-> 0]
ParseOk(x, p) == [ok |-> TRUE, val |-> x, pos |-> p]

RECURSIVE ParseValue(_, _), ParseElems(_, _, _), ParseMembers(_, _, _)
(* json.decoder scanner: the value that starts at position i *)
ParseValue(t, i) ==
    IF i > Len(t) THEN ParseFail
    ELSE CASE t[i].k = "str" -> ParseOk(JStr(t[i].s), i + 1)
           [] t[i].k = "num" -> ParseOk(JNum(NumRepr(t[i].s)), i + 1)
           [] t[i].k = "lit" -> ParseOk(JLit(t[i].s), i + 1)
           [] t[i] = LB ->
                LET j == SkipWs(t, i + 1)
                IN  IF j <= Len(t) /\ t[j] = RB
                    THEN ParseOk(JArr(<<>>), j + 1)
                    ELSE ParseElems(t, j, <<>>)
           [] t[i] = LC ->
                LET j == SkipWs(t, i + 1)
                IN  IF j <= Len(t) /\ t[j] = RC
                    THEN ParseOk(JObj(<<>>), j + 1)
                    ELSE ParseMembers(t, j, <<>>)
           [] OTHER -> ParseFail

(* JSONArray: a value, then "," and another value, or "]" *)
ParseElems(t, i, acc) ==
    LET r == ParseValue(t, i)
    IN  IF ~r.ok THEN ParseFail
        ELSE LET j == SkipWs(t, r.pos)
             IN  IF j > Len(t) THEN ParseFail
                 ELSE IF t[j] = RB THEN ParseOk(JArr(Append(acc, r.val)), j + 1)
                 ELSE IF t[j] = COMMA
                      THEN ParseElems(t, SkipWs(t, j + 1), Append(acc, r.val))
                 ELSE ParseFail

(* JSONObject: "key" : value, then "," and another member, or "}" *)
ParseMembers(t, i, acc) ==
    IF i > Len(t) \/ t[i].k # "str" THEN ParseFail
    ELSE LET c == SkipWs(t, i + 1)
         IN  IF c > Len(t) \/ t[c] # COLON THEN ParseFail
             ELSE LET r == ParseValue(t, SkipWs(t, c + 1))
                  IN  IF ~r.ok THEN ParseFail
                      ELSE LET j == SkipWs(t, r.pos)
                               acc2 == PutKey(acc, t[i].s, r.val)
                           IN  IF j > Len(t) THEN ParseFail
                               ELSE IF t[j] = RC THEN ParseOk(JObj(acc2), j + 1)
                               ELSE IF t[j] = COMMA
                                    THEN ParseMembers(t, SkipWs(t, j + 1), acc2)
                               ELSE ParseFail

(* a parser that does not raise: text it cannot read is the empty object *)
LoadsLenient(t) ==
    LET r == ParseValue(t, SkipWs(t, 1))
    IN  IF r.ok /\ SkipWs(t, r.pos) > Len(t) THEN r
        ELSE ParseOk(JObj(<<>>), Len(t) + 1)

(* json.loads(s): one value, whitespace around it, nothing after it *)
Loads(t) ==
    LET r == ParseValue(t, SkipWs(t, 1))
    IN  IF r.ok /\ SkipWs(t, r.pos) > Len(t) THEN r ELSE ParseFail

Indent(n) == [i \in 1..(2 * n) |-> SP]

RECURSIVE DumpsAt(_, _), DumpElems(_, _, _), DumpMembers(_, _, _)
(* json.dumps(v, indent=2) at nesting level lvl *)
DumpsAt(x, lvl) ==
    CASE x.t = "str" -> <<TStr(x.v)>>
      [] x.t = "num" -> <<TNum(x.v)>>
      [] x.t = "arr" ->
           IF x.v = <<>> THEN <<LB, RB>>
           ELSE <<LB>> \o DumpElems(x.v, 1, lvl + 1)
                \o <<NL>> \o Indent(lvl) \o <<RB>>
      [] x.t = "obj" ->
           IF x.v = <<>> THEN <<LC, RC>>
           ELSE <<LC>> \o DumpMembers(x.v, 1, lvl + 1)
                \o <<NL>> \o Indent(lvl) \o <<RC>>
      [] OTHER -> <<Tok("lit", x.v)>>

DumpElems(items, i, lvl) ==
    IF i > Len(items) THEN <<>>
    ELSE (IF i > 1 THEN <<COMMA>> ELSE <<>>)
         \o <<NL>> \o Indent(lvl) \o DumpsAt(items[i], lvl)
         \o DumpElems(items, i + 1, lvl)

DumpMembers(members, i, lvl) ==
    IF i > Len(members) THEN <<>>
    ELSE (IF i > 1 THEN <<COMMA>> ELSE <<>>)
         \o <<NL>> \o Indent(lvl) \o <<TStr(members[i].key), COLON, SP>>
         \o DumpsAt(members[i].val, lvl)
         \o DumpMembers(members, i + 1, lvl)

Dumps(x) == DumpsAt(x, 0)

(* tk.Text.get("1.0", "end"): the content and the newline Tk appends *)
TextGet(content) == content \o <<NL>>


(***************************************************************************)
(* Strings are sequences of characters, so that startswith, replace, in,   *)
(* lower, split and strip are computed as Python computes them.            *)
(***************************************************************************)
DESIGN == <<"_", "d", "e", "s", "i", "g", "n", "/">>
K_ID == <<"_", "i", "d">>
K_REV == <<"_", "r", "e", "v">>
NoneVal == <<"<None>">>          \* Python's None where a string may stand

(* s.startswith(p) *)
StartsWith(s, p) == Len(s) >= Len(p) /\ SubSeq(s, 1, Len(p)) = p

(* needle in hay *)
Contains(hay, needle) ==
    \E i \in 0..(Len(hay) - Len(needle)) :
        SubSeq(hay, i + 1, i + Len(needle)) = needle

LowerChar(c) ==
    CASE c = "A" -> "a"
      [] OTHER -> c

(* s.lower() *)
Lower(s) == [i \in 1..Len(s) |-> LowerChar(s[i])]

RECURSIVE DumpsFlat(_), DumpsFlatElems(_, _), DumpsFlatMembers(_, _)
(* json.dumps(v): the one-line form, as characters *)
DumpsFlat(x) ==
    CASE x.t = "str" -> <<"\"">> \o x.v \o <<"\"">>
      [] x.t = "num" -> <<x.v>>
      [] x.t = "arr" -> <<"[">> \o DumpsFlatElems(x.v, 1) \o <<"]">>
      [] x.t = "obj" -> <<"{">> \o DumpsFlatMembers(x.v, 1) \o <<"}">>
      [] OTHER -> <<x.v>>

DumpsFlatElems(items, i) ==
    IF i > Len(items) THEN <<>>
    ELSE (IF i > 1 THEN <<",", " ">> ELSE <<>>)
         \o DumpsFlat(items[i]) \o DumpsFlatElems(items, i + 1)

DumpsFlatMembers(members, i) ==
    IF i > Len(members) THEN <<>>
    ELSE (IF i > 1 THEN <<",", " ">> ELSE <<>>)
         \o <<"\"">> \o members[i].key \o <<"\"", ":", " ">>
         \o DumpsFlat(members[i].val) \o DumpsFlatMembers(members, i + 1)

(***************************************************************************)
(* State.                                                                   *)
(***************************************************************************)
VARIABLES
    connected,       \* CouchDBManager.connected
    conn_btn,        \* text of CouchDBManager.conn_btn
    action_buttons,  \* state of every button in CouchDBManager.action_buttons
    tree,            \* CouchDBManager.tree: the database names, one per row
    tree_sel,        \* the selected rows of tree (indexes)
    m_status_var,    \* CouchDBManager.status_var
    view_open        \* a BrowseWindow exists

VARIABLES
    docs,          \* BrowseWindow.docs: members (id, document) in insertion order
    doc_tree,      \* BrowseWindow.doc_tree: rows [id, rev]
    doc_sel,       \* index of the first selected row of doc_tree, 0 if none
    text,          \* BrowseWindow.text: the editor content, a token sequence
    current_doc,   \* BrowseWindow.current_doc
    b_status_var,  \* BrowseWindow.status_var as the operations see it
    b_status_bar,  \* the variable the status bar label of the view is bound to
    idx_tree,      \* BrowseWindow.idx_tree: rows [ddoc, name, fields]
    idx_sel,       \* index of the first selected row of idx_tree, 0 if none
    idx_src        \* the indexes of the server's answer idx_tree was filled from

VARIABLES
    focus,         \* the window the operator works in
    lastOp,        \* the handler that ran last, "idle" back in the event loop
    reqs,          \* the HTTP requests it issued, in order, with their outcome
    modals,        \* the message boxes it showed, in order
    payload,       \* the strings its requests carried: the fields of the index
                   \* posted, the design document and name of the index deleted,
                   \* the names of the databases deleted; for load_docs the ids
                   \* of the rows the server answered
    counts,        \* success_count and fail_count of delete_selected / delete_all
    dialog,        \* what the operator entered in the dialog it showed: name and
                   \* fields of a FieldsInputDialog, the result of new_doc's
                   \* InputDialog
    known,         \* per followed document id, the revision the server returned last
    sent           \* the (id, _rev) it sent, when revisions are followed

VARIABLES
    stack,         \* event loop: the handlers that have started and not finished
    timers,        \* event loop: the callbacks scheduled with after()
    queue,         \* event loop: the clicks waiting to be dispatched
    http           \* event loop: the requests outstanding

mainVars == <<connected, conn_btn, action_buttons, tree, tree_sel, m_status_var,
              view_open>>
docVars == <<docs, doc_tree, doc_sel, text, current_doc>>
idxVars == <<idx_tree, idx_sel, idx_src>>
loopVars == <<stack, timers, queue, http>>
histVars == <<lastOp, reqs, modals, payload, counts, dialog, known, sent>>
vars == <<mainVars, docVars, idxVars, b_status_var, b_status_bar, focus, histVars,
          loopVars>>

Request(m, kind, resp) == [m |-> m, kind |-> kind, resp |-> resp]
Row(id, rev) == [id |-> id, rev |-> rev]

(* Treeview.delete(item): the row goes, and the selection with it *)
TreeDelete(rows, i) == SubSeq(rows, 1, i - 1) \o SubSeq(rows, i + 1, Len(rows))

(* outcome of one request: a 2xx answer, an error status whose body is    *)
(* JSON (what CouchDB sends), an error status with another body, or no     *)
(* answer at all                                                            *)
Outcomes == {"ok", "http_error", "http_error_html", "network_error"}
(* where raise_for_status is called the two error kinds are one *)
WriteOutcomes == {"ok", "http_error", "network_error"}
Failed(resp) == resp # "ok"

(* a handler starts from the event loop, in the window that has the focus *)
Starts(window) == focus = window /\ lastOp = "idle"

(***************************************************************************)
(* app.mainloop(): the handler has returned                                 *)
(***************************************************************************)
mainloop ==
    /\ lastOp # "idle"
    /\ lastOp' = "idle"
    /\ reqs' = <<>>
    /\ modals' = <<>>
    /\ payload' = <<>>
    /\ counts' = <<0, 0>>
    /\ dialog' = <<>>
    /\ sent' = <<>>
    /\ UNCHANGED <<mainVars, docVars, idxVars, b_status_var, b_status_bar, focus,
                   known, loopVars>>

(***************************************************************************)
(* The server, as the browse view sees it: every answer is an input.       *)
(***************************************************************************)
ID_A == <<"A">>
ID_D == DESIGN \o <<"d">>
ServerIds == <<ID_A, ID_D>>           \* _all_docs answers in id order
(* revisions are followed where known has a domain: there the server hands *)
(* out two revisions, elsewhere one                                         *)
FollowsRevisions == DOMAIN known # {}
Revs == IF FollowsRevisions THEN {<<"1">>, <<"2">>} ELSE {<<"1">>}
Absent == <<>>

ServerDoc(id, rev) == JObj(<<Member(K_ID, JStr(id)), Member(K_REV, JStr(rev))>>)
ServerRow(id, rev) == [id |-> id, rev |-> rev, doc |-> ServerDoc(id, rev)]

(* the rows of an _all_docs answer: f gives each id its revision or Absent *)
RECURSIVE RowsOf(_, _)
RowsOf(f, i) ==
    IF i > Len(ServerIds) THEN <<>>
    ELSE (IF f[i] = Absent THEN <<>> ELSE <<ServerRow(ServerIds[i], f[i])>>)
         \o RowsOf(f, i + 1)

AllDocsAnswers == {RowsOf(f, 1) : f \in [1..Len(ServerIds) -> Revs \cup {Absent}]}

KnownIds == {ID_A, ID_D}
SearchTexts == {<<>>, <<"a">>}

(* doc.get('_rev', '') *)
RevOf(doc) ==
    LET r == GetKey(doc.v, K_REV, JStr(<<>>))
    IN  IF r.t = "str" THEN r.v ELSE <<>>

(* what a request carried, recorded when revisions are followed *)
Sent(id, rev) ==
    IF FollowsRevisions THEN <<[id |-> id, rev |-> rev]>> ELSE <<>>

(* the revisions the server has returned, after one more answer *)
Learn(kn, id, rev) ==
    IF id \in DOMAIN kn THEN [kn EXCEPT ![id] = rev] ELSE kn

RECURSIVE LearnRows(_, _, _)
LearnRows(kn, rows, i) ==
    IF i > Len(rows) THEN kn
    ELSE LearnRows(Learn(kn, rows[i].id, rows[i].rev), rows, i + 1)

(* what a handler of the document pane leaves alone *)
DocFrame ==
    UNCHANGED <<mainVars, idxVars, b_status_bar, focus, payload, counts, loopVars>>

(***************************************************************************)
(* BrowseWindow.load_docs (the Refresh button and the callback scheduled   *)
(* by the constructor)                                                      *)
(***************************************************************************)
IsDesign(id) == StartsWith(id, DESIGN)

(* load_docs without its test on the id *)
KeptAll(rows) == rows

(* the rows of the answer that load_docs keeps *)
KeptRows(rows) == SelectSeq(rows, LAMBDA r : ~IsDesign(r.id))

(* requests.get or resp.json() raises: load_docs has no raise_for_status, *)
(* and a JSON error body parses                                             *)
LoadRaises(resp) == resp \in {"network_error", "http_error_html"}

load_docs ==
    \E resp \in Outcomes, answer \in AllDocsAnswers :
        /\ Starts("documents")
        /\ resp # "ok" => answer = <<>>
        /\ lastOp' = "load_docs"
        /\ reqs' = <<Request("GET", "all_docs", resp)>>
        /\ payload' = [i \in 1..Len(answer) |-> answer[i].id]
        /\ IF LoadRaises(resp)
           THEN /\ b_status_var' = "Error loading documents"
                /\ modals' = <<"error">>
                /\ UNCHANGED <<docVars, known>>
           ELSE \* the body of an error status has no 'rows'
                LET kept == KeptRows(answer)
                IN  /\ doc_tree' = [i \in 1..Len(kept) |-> Row(kept[i].id, kept[i].rev)]
                    /\ doc_sel' = 0
                    /\ docs' = [i \in 1..Len(kept) |-> Member(kept[i].id, kept[i].doc)]
                    /\ b_status_var' = "Loaded documents"
                    /\ modals' = <<>>
                    /\ known' = LearnRows(known, answer, 1)
                    /\ UNCHANGED <<text, current_doc>>
        /\ UNCHANGED sent
        /\ UNCHANGED <<mainVars, idxVars, b_status_bar, focus, counts, dialog,
                       loopVars>>

(***************************************************************************)
(* BrowseWindow.filter_docs (a key released in the search box)             *)
(***************************************************************************)
Matches(search_text, m) ==
    \/ Contains(Lower(m.key), search_text)
    \/ Contains(Lower(DumpsFlat(m.val)), search_text)

(* the rows filter_docs inserts, in the order of the cache *)
FilterRows(cache, search_text) ==
    LET hits == SelectSeq(cache, LAMBDA m : Matches(search_text, m))
    IN  [i \in 1..Len(hits) |-> Row(hits[i].key, RevOf(hits[i].val))]

filter_docs ==
    \E typed \in SearchTexts :
        /\ Starts("documents")
        /\ lastOp' = "filter_docs"
        /\ doc_tree' = FilterRows(docs, Lower(typed))
        /\ doc_sel' = 0
        /\ b_status_var' = "Found matching documents"
        /\ UNCHANGED <<docs, text, current_doc, reqs, modals, dialog, known, sent>>
        /\ DocFrame

(***************************************************************************)
(* BrowseWindow.show_doc (a row of the list selected)                      *)
(***************************************************************************)
show_doc ==
    \E i \in 1..Len(doc_tree) :
        LET doc_id == doc_tree[i].id
            doc == GetKey(docs, doc_id, JObj(<<>>))
        IN  /\ Starts("documents")
            /\ lastOp' = "show_doc"
            /\ doc_sel' = i
            /\ text' = Dumps(doc)
            /\ current_doc' = doc_id
            /\ b_status_var' = "Loaded document"
            /\ UNCHANGED <<docs, doc_tree, reqs, modals, dialog, known, sent>>
            /\ DocFrame

(***************************************************************************)
(* BrowseWindow.save_doc, run on the editor content t with current_doc cur *)
(* (new_doc fills both before it calls save_doc)                            *)
(***************************************************************************)
(* Treeview.item(item, values=...) on the first row that holds new_id *)
UpdateRow(rows, new_id, new_rev) ==
    IF \E i \in 1..Len(rows) : rows[i].id = new_id
    THEN LET first == CHOOSE i \in 1..Len(rows) :
                          /\ rows[i].id = new_id
                          /\ \A j \in 1..(i - 1) : rows[j].id # new_id
         IN  [rows EXCEPT ![first] = Row(new_id, new_rev)]
    ELSE rows

(* The answers to save_doc's PUT. With an id it is PUT /{db}/{id}: created  *)
(* or updated, a 2xx body without 'ok', an error status (409 for a stale   *)
(* _rev), or no answer. Without an id the URL is the database itself, and  *)
(* PUT /{db} on the database the view is open on is refused (it exists).   *)
SaveOutcomes(doc_id) ==
    IF doc_id = <<>>
    THEN WriteOutcomes \ {"ok"}
    ELSE WriteOutcomes \cup {"ok_unconfirmed"}

(* the cache written before the answer is looked at *)
CacheBeforeAnswer(cache, resp, new_id, doc) == PutKey(cache, new_id, doc)

(* self.docs after the PUT was answered *)
CacheAfterSave(cache, resp, new_id, doc) ==
    IF resp = "ok" THEN PutKey(cache, new_id, doc) ELSE cache

(* self.doc_tree after the PUT was answered *)
ListAfterSave(rows, resp, inserts, new_id, new_rev) ==
    IF resp # "ok" THEN rows
    ELSE IF inserts THEN Append(rows, Row(new_id, new_rev))
    ELSE UpdateRow(rows, new_id, new_rev)

save_doc_from(t, cur, op) ==
    LET p == Loads(Strip(TextGet(t)))
        cur_set == cur # NoneVal /\ cur # <<>>
        d0 == p.val.v
        id_changed == /\ cur_set
                      /\ HasKey(d0, K_ID)
                      /\ GetKey(d0, K_ID, JNull) # JStr(cur)
        d1 == IF cur_set /\ ~id_changed THEN PutKey(d0, K_ID, JStr(cur)) ELSE d0
        idv == GetKey(d1, K_ID, JStr(<<>>))
        doc_id == IF idv.t = "str" THEN idv.v ELSE <<>>
        revv == GetKey(d1, K_REV, JStr(Absent))
        sent_rev == IF revv.t = "str" THEN revv.v ELSE Absent
        asked == IF id_changed THEN <<"askyesno">> ELSE <<>>
    IN  /\ lastOp' = op
        /\ IF ~p.ok \/ p.val.t # "obj"
           THEN \* json.JSONDecodeError is reported; a value that is no dict
                \* raises out of the handler; nothing is sent either way
                /\ modals' = IF ~p.ok \/ op = "new_doc" THEN <<"error">> ELSE <<>>
                /\ text' = t
                /\ current_doc' = cur
                /\ UNCHANGED <<docs, doc_tree, doc_sel, b_status_var, reqs, known, sent>>
           ELSE \E confirm \in (IF id_changed THEN BOOLEAN ELSE {TRUE}) :
                IF ~confirm
                THEN \* the operator declines the changed id
                     /\ modals' = asked
                     /\ text' = t
                     /\ current_doc' = cur
                     /\ UNCHANGED <<docs, doc_tree, doc_sel, b_status_var, reqs, known,
                                    sent>>
                ELSE \E resp \in SaveOutcomes(doc_id), new_rev \in Revs :
                     LET new_id == doc_id
                         d2 == PutKey(PutKey(d1, K_ID, JStr(new_id)),
                                      K_REV, JStr(new_rev))
                         inserts == ~cur_set \/ cur # new_id
                     IN  /\ resp # "ok" => new_rev = CHOOSE r \in Revs : TRUE
                         /\ reqs' = <<Request("PUT",
                                              IF doc_id = <<>> THEN "db" ELSE "doc",
                                              resp)>>
                         /\ sent' = Sent(doc_id, sent_rev)
                         /\ docs' = CacheAfterSave(docs, resp, new_id, JObj(d2))
                         /\ doc_tree' = ListAfterSave(doc_tree, resp, inserts,
                                                      new_id, new_rev)
                         /\ Len(doc_tree') <= MaxRows
                         /\ UNCHANGED doc_sel
                         /\ IF resp = "ok"
                            THEN /\ current_doc' = new_id
                                 /\ text' = Dumps(JObj(d2))
                                 /\ b_status_var' = "Saved document"
                                 /\ modals' = asked
                                 /\ known' = Learn(known, new_id, new_rev)
                            ELSE /\ b_status_var' =
                                      IF resp = "ok_unconfirmed"
                                      THEN "Save failed: no confirmation from server"
                                      ELSE "Failed to save document"
                                 /\ modals' = asked \o <<"error">>
                                 /\ text' = t
                                 /\ current_doc' = cur
                                 /\ UNCHANGED known
        /\ DocFrame

save_doc ==
    /\ Starts("documents")
    /\ UNCHANGED dialog
    /\ save_doc_from(text, current_doc, "save_doc")

(***************************************************************************)
(* BrowseWindow.new_doc                                                     *)
(***************************************************************************)
NewDocInputs == {NoneVal, <<>>, ID_D}

new_doc ==
    \E result \in NewDocInputs :
        /\ Starts("documents")
        /\ dialog' = <<result>>
        /\ IF result = NoneVal
           THEN \* the dialog was cancelled
                /\ lastOp' = "new_doc"
                /\ UNCHANGED <<docVars, b_status_var, reqs, modals, known, sent>>
                /\ DocFrame
           ELSE LET doc == IF result # <<>>
                           THEN JObj(<<Member(K_ID, JStr(result))>>)
                           ELSE JObj(<<>>)
                IN  save_doc_from(Dumps(doc), NoneVal, "new_doc")

(***************************************************************************)
(* messagebox.askyesno before a deletion: `if not askyesno(...): return`.   *)
(***************************************************************************)
(* the answer as the history records it *)
Answered(confirm) == <<IF confirm THEN <<"yes">> ELSE <<"no">>>>

(* the handler going on whatever the operator answered *)
DeclinedNever(confirm) == FALSE

Declined(confirm) == ~confirm

(***************************************************************************)
(* BrowseWindow.delete_doc                                                  *)
(***************************************************************************)
delete_doc ==
    \E confirm \in BOOLEAN, resp \in WriteOutcomes :
        /\ Starts("documents")
        /\ lastOp' = "delete_doc"
        /\ UNCHANGED known
        /\ DocFrame
        /\ dialog' = IF doc_sel = 0 THEN <<>> ELSE Answered(confirm)
        /\ IF doc_sel = 0
           THEN /\ modals' = <<"info">>
                /\ UNCHANGED <<docVars, b_status_var, reqs, sent>>
           ELSE LET doc_id == doc_tree[doc_sel].id
                    rev == doc_tree[doc_sel].rev
                IN  IF Declined(confirm)
                    THEN /\ modals' = <<"askyesno">>
                         /\ UNCHANGED <<docVars, b_status_var, reqs, sent>>
                    ELSE /\ reqs' = <<Request("DELETE", "doc", resp)>>
                         /\ sent' = Sent(doc_id, rev)
                         /\ IF resp = "ok"
                            THEN /\ doc_tree' = TreeDelete(doc_tree, doc_sel)
                                 /\ doc_sel' = 0
                                 /\ docs' = DelKey(docs, doc_id)
                                 /\ b_status_var' = "Deleted document"
                                 /\ modals' = <<"askyesno">>
                                 /\ IF current_doc = doc_id
                                    THEN text' = <<>> /\ current_doc' = NoneVal
                                    ELSE UNCHANGED <<text, current_doc>>
                            ELSE /\ b_status_var' = "Failed to delete document"
                                 /\ modals' = <<"askyesno", "error">>
                                 /\ UNCHANGED docVars

(***************************************************************************)
(* BrowseWindow.format_json                                                 *)
(***************************************************************************)
(* format_json without self.text.delete: the insert lands before the old text *)
FormattedInserted(t) ==
    LET p == Loads(Strip(TextGet(t)))
    IN  IF p.ok THEN Dumps(p.val) \o t ELSE t

(* the text format_json leaves in the editor *)
Formatted(t) ==
    LET p == Loads(Strip(TextGet(t)))
    IN  IF p.ok THEN Dumps(p.val) ELSE t

format_json ==
    LET p == Loads(Strip(TextGet(text)))
    IN  /\ Starts("documents")
        /\ lastOp' = "format_json"
        /\ text' = Formatted(text)
        /\ IF p.ok
           THEN /\ b_status_var' = "JSON formatted"
                /\ UNCHANGED modals
           ELSE /\ modals' = <<"error">>
                /\ UNCHANGED b_status_var
        /\ UNCHANGED <<docs, doc_tree, doc_sel, current_doc, reqs, dialog, known, sent>>
        /\ DocFrame

(***************************************************************************)
(* The operator types in the editor pane (no handler runs): the text is    *)
(* broken, replaced by a JSON value that is no object, or its _id changed. *)
(* The operator leaves _rev as the view wrote it.                           *)
(***************************************************************************)
EditedTexts(t) ==
    LET p == Loads(Strip(TextGet(t)))
    IN  {<<LC>>, <<LB, RB>>}
        \cup (IF p.ok /\ p.val.t = "obj"
              THEN {Dumps(JObj(PutKey(p.val.v, K_ID, JStr(id)))) : id \in {ID_A, ID_D}}
              ELSE {})

edit_text ==
    \E t \in EditedTexts(text) :
        /\ Starts("documents")
        /\ t # text
        /\ text' = t
        /\ UNCHANGED <<docs, doc_tree, doc_sel, current_doc, b_status_var, histVars>>
        /\ DocFrame

(***************************************************************************)
(* The index pane of the browse view.                                       *)
(***************************************************************************)
(* an index as GET /{db}/_index describes it; a field is {k: v} or a string *)
DictField(k, v) == [dict |-> TRUE, k |-> k, v |-> v]
PlainField(f) == [dict |-> FALSE, k |-> f, v |-> <<>>]
Index(ddoc, name, fields) == [ddoc |-> ddoc, name |-> name, fields |-> fields]

IX_SPECIAL == Index(NoneVal, <<"_all_docs">>, <<DictField(K_ID, <<"a", "s", "c">>)>>)
IX_FOO == Index(DESIGN \o <<"f", "o", "o">>, <<"b", "a", "r">>,
                <<DictField(<<"x">>, <<"a", "s", "c">>)>>)
IX_NESTED == Index(DESIGN \o <<"a">> \o DESIGN \o <<"b">>, <<"n">>,
                   <<PlainField(<<"y">>), DictField(<<"z">>, <<"d", "e", "s", "c">>)>>)
ServerIndexes == {IX_SPECIAL, IX_FOO, IX_NESTED}

(* the answers to GET _index: up to MaxRows different indexes, any order *)
IndexAnswers ==
    {a \in UNION {[1..n -> ServerIndexes] : n \in 0..MaxRows} :
        \A i, j \in 1..Len(a) : i # j => a[i] # a[j]}

RECURSIVE Replace(_, _)
(* s.replace(old, ''): every occurrence of old removed, left to right *)
Replace(str, old) ==
    IF str = <<>> THEN <<>>
    ELSE IF StartsWith(str, old)
         THEN Replace(SubSeq(str, Len(old) + 1, Len(str)), old)
         ELSE <<Head(str)>> \o Replace(Tail(str), old)

RECURSIVE Join(_, _)
(* sep.join(list) *)
Join(list, sep) ==
    IF list = <<>> THEN <<>>
    ELSE IF Len(list) = 1 THEN list[1]
    ELSE list[1] \o sep \o Join(Tail(list), sep)

(* the design-document column of load_indexes *)
DdocColumn(ddoc) == IF ddoc = NoneVal THEN <<>> ELSE Replace(ddoc, DESIGN)

(* the fields column of load_indexes *)
FieldText(f) == IF f.dict THEN f.k \o <<":">> \o f.v ELSE f.k
FieldsColumn(fields) ==
    Join([i \in 1..Len(fields) |-> FieldText(fields[i])], <<",", " ">>)

IdxRow(ddoc, name, fields) == [ddoc |-> ddoc, name |-> name, fields |-> fields]
RenderIndex(idx) == IdxRow(DdocColumn(idx.ddoc), idx.name, FieldsColumn(idx.fields))

(* BrowseWindow.load_indexes, as the button and as add_index and           *)
(* delete_index call it: what it leaves in the view                         *)
LoadIndexes(resp, answer) ==
    IF resp = "ok"
    THEN [tree |-> [i \in 1..Len(answer) |-> RenderIndex(answer[i])],
          sel |-> 0,
          src |-> answer,
          status |-> "Loaded indexes",
          modals |-> <<>>]
    ELSE [tree |-> idx_tree,
          sel |-> idx_sel,
          src |-> idx_src,
          status |-> "Error loading indexes",
          modals |-> <<"error">>]

(* what a handler of the index pane leaves alone *)
IdxFrame == UNCHANGED <<mainVars, docVars, b_status_bar, focus, counts, known, sent,
                        loopVars>>

load_indexes ==
    \E resp \in WriteOutcomes, answer \in IndexAnswers :
        LET r == LoadIndexes(resp, answer)
        IN  /\ Starts("indexes")
            /\ resp # "ok" => answer = <<>>
            /\ lastOp' = "load_indexes"
            /\ reqs' = <<Request("GET", "index", resp)>>
            /\ idx_tree' = r.tree
            /\ idx_sel' = r.sel
            /\ idx_src' = r.src
            /\ b_status_var' = r.status
            /\ modals' = r.modals
            /\ UNCHANGED <<payload, dialog>>
            /\ IdxFrame

(* the operator selects a row of the index list *)
select_index ==
    \E i \in 1..Len(idx_tree) :
        /\ Starts("indexes")
        /\ idx_sel # i
        /\ idx_sel' = i
        /\ UNCHANGED <<idx_tree, idx_src, b_status_var, histVars>>
        /\ IdxFrame

(***************************************************************************)
(* FieldsInputDialog and the payload built from it                          *)
(***************************************************************************)
NameInputs == {<<>>, <<"i">>}
FieldsInputs == {<<>>, <<" ">>, <<"x">>, <<"x", ",", " ", "y">>}

RECURSIVE Split(_, _, _)
(* s.split(sep) for a one-character sep: cur is the piece being read *)
Split(str, sep, cur) ==
    IF str = <<>> THEN <<cur>>
    ELSE IF Head(str) = sep THEN <<cur>> \o Split(Tail(str), sep, <<>>)
    ELSE Split(Tail(str), sep, Append(cur, Head(str)))

RECURSIVE LStrip(_), RStrip(_)
LStrip(str) == IF str # <<>> /\ Head(str) = " " THEN LStrip(Tail(str)) ELSE str
RStrip(str) ==
    IF str # <<>> /\ str[Len(str)] = " "
    THEN RStrip(SubSeq(str, 1, Len(str) - 1)) ELSE str
(* s.strip() on characters *)
StripStr(str) == RStrip(LStrip(str))

(* [f.strip() for f in fields.split(',')] *)
FieldList(fields) ==
    LET parts == Split(fields, ",", <<>>)
    IN  [i \in 1..Len(parts) |-> StripStr(parts[i])]

(* a test on dialog.name alone *)
RejectedNoName(name, fields) == name = <<>>

(* not dialog.name or not dialog.fields: the handler returns *)
DialogRejected(name, fields) == name = <<>> \/ fields = <<>>

(***************************************************************************)
(* BrowseWindow.add_index                                                   *)
(***************************************************************************)
add_index ==
    \E name \in NameInputs, fields \in FieldsInputs, resp \in WriteOutcomes,
       resp2 \in WriteOutcomes, answer \in IndexAnswers :
        LET r == LoadIndexes(resp2, answer)
        IN  /\ Starts("indexes")
            /\ resp2 # "ok" => answer = <<>>
            /\ lastOp' = "add_index"
            /\ dialog' = <<name, fields>>
            /\ IdxFrame
            /\ IF DialogRejected(name, fields)
               THEN UNCHANGED <<idxVars, b_status_var, reqs, modals, payload>>
               ELSE /\ payload' = FieldList(fields)
                    /\ IF resp # "ok"
                       THEN /\ resp2 = "ok" /\ answer = <<>>
                            /\ reqs' = <<Request("POST", "index", resp)>>
                            /\ b_status_var' = "Failed to create index"
                            /\ modals' = <<"error">>
                            /\ UNCHANGED idxVars
                       ELSE \* load_indexes runs, then the status is overwritten
                            /\ reqs' = <<Request("POST", "index", resp),
                                         Request("GET", "index", resp2)>>
                            /\ idx_tree' = r.tree
                            /\ idx_sel' = r.sel
                            /\ idx_src' = r.src
                            /\ modals' = r.modals
                            /\ b_status_var' = "Created index"

(***************************************************************************)
(* BrowseWindow.delete_index                                                *)
(***************************************************************************)
(* the design-document part of the DELETE path *)
DdocPath(ddoc) == IF StartsWith(ddoc, DESIGN) THEN ddoc ELSE DESIGN \o ddoc

delete_index ==
    \E confirm \in BOOLEAN, resp \in WriteOutcomes, resp2 \in WriteOutcomes,
       answer \in IndexAnswers :
        LET r == LoadIndexes(resp2, answer)
        IN  /\ Starts("indexes")
            /\ resp2 # "ok" => answer = <<>>
            /\ lastOp' = "delete_index"
            /\ dialog' = IF idx_sel = 0 THEN <<>> ELSE Answered(confirm)
            /\ IdxFrame
            /\ IF idx_sel = 0
               THEN /\ modals' = <<"info">>
                    /\ UNCHANGED <<idxVars, b_status_var, reqs, payload>>
               ELSE IF Declined(confirm)
               THEN /\ modals' = <<"askyesno">>
                    /\ UNCHANGED <<idxVars, b_status_var, reqs, payload>>
               ELSE /\ payload' = <<DdocPath(idx_tree[idx_sel].ddoc),
                                    idx_tree[idx_sel].name>>
                    /\ IF resp # "ok"
                       THEN /\ resp2 = "ok" /\ answer = <<>>
                            /\ reqs' = <<Request("DELETE", "index", resp)>>
                            /\ b_status_var' = "Failed to delete index"
                            /\ modals' = <<"askyesno", "error">>
                            /\ UNCHANGED idxVars
                       ELSE /\ reqs' = <<Request("DELETE", "index", resp),
                                         Request("GET", "index", resp2)>>
                            /\ idx_tree' = r.tree
                            /\ idx_sel' = r.sel
                            /\ idx_src' = r.src
                            /\ modals' = <<"askyesno">> \o r.modals
                            /\ b_status_var' = "Deleted index"

(***************************************************************************)
(* The main window.                                                         *)
(***************************************************************************)
DB_X == <<"x">>
DB_Y == <<"y">>
AllDbsAnswers == {<<>>, <<DB_X>>, <<DB_Y>>, <<DB_X, DB_Y>>}
DbNameInputs == {NoneVal, <<>>, DB_X, DB_Y}

(* what a handler of the main window leaves alone *)
MainFrame == UNCHANGED <<docVars, idxVars, b_status_var, b_status_bar, focus, known,
                         sent, loopVars>>

(* a button of action_buttons can be pressed *)
Enabled == action_buttons = "normal"

(* CouchDBManager.connect *)
connect ==
    \E resp \in Outcomes, dbs \in AllDbsAnswers :
        /\ resp # "ok" => dbs = <<>>
        /\ lastOp' = "connect"
        /\ reqs' = <<Request("GET", "all_dbs", resp)>>
        /\ IF resp = "ok"
           THEN /\ tree' = dbs
                /\ tree_sel' = {}
                /\ action_buttons' = "normal"
                /\ conn_btn' = "Disconnect"
                /\ connected' = TRUE
                /\ m_status_var' = "Connected"
                /\ UNCHANGED modals
           ELSE /\ m_status_var' = "Connection failed"
                /\ modals' = <<"error">>
                /\ UNCHANGED <<tree, tree_sel, action_buttons, conn_btn, connected>>
        /\ UNCHANGED <<view_open, payload, counts, dialog>>
        /\ MainFrame

(* disconnect without the loop that clears the treeview *)
disconnect_keeping_rows ==
    /\ lastOp' = "disconnect"
    /\ action_buttons' = "disabled"
    /\ conn_btn' = "Connect"
    /\ connected' = FALSE
    /\ m_status_var' = "Not connected"
    /\ UNCHANGED <<tree, tree_sel, view_open, reqs, modals, payload, counts, dialog>>
    /\ MainFrame

(* CouchDBManager.disconnect *)
disconnect ==
    /\ lastOp' = "disconnect"
    /\ tree' = <<>>
    /\ tree_sel' = {}
    /\ action_buttons' = "disabled"
    /\ conn_btn' = "Connect"
    /\ connected' = FALSE
    /\ m_status_var' = "Not connected"
    /\ UNCHANGED <<view_open, reqs, modals, payload, counts, dialog>>
    /\ MainFrame

(* CouchDBManager.toggle_connection, the command of conn_btn *)
toggle_connection ==
    /\ Starts("main")
    /\ IF ~connected THEN connect ELSE disconnect

(* the operator changes the selection of the database list *)
select_rows ==
    \E sel \in SUBSET (1..Len(tree)) :
        /\ Starts("main")
        /\ sel # tree_sel
        /\ tree_sel' = sel
        /\ UNCHANGED <<connected, conn_btn, action_buttons, tree, m_status_var,
                       view_open, histVars>>
        /\ MainFrame

(* CouchDBManager.select_all *)
select_all ==
    /\ Starts("main") /\ Enabled
    /\ lastOp' = "select_all"
    /\ tree_sel' = 1..Len(tree)
    /\ UNCHANGED <<connected, conn_btn, action_buttons, tree, m_status_var, view_open,
                   reqs, modals, payload, counts, dialog>>
    /\ MainFrame

(***************************************************************************)
(* CouchDBManager.delete_selected and delete_all: the loop over the        *)
(* targeted rows, out[i] the outcome of the DELETE for row i                *)
(***************************************************************************)
RECURSIVE SeqOfSet(_)
(* the targeted rows in the order Treeview reports them *)
SeqOfSet(set) ==
    IF set = {} THEN <<>>
    ELSE LET lo == CHOOSE i \in set : \A j \in set : i <= j
         IN  <<lo>> \o SeqOfSet(set \ {lo})

(* self.tree.delete(item) done for every targeted row, whatever its DELETE answered *)
RowsLeftUntargeted(rows, targets, out) ==
    LET keep == SeqOfSet({i \in 1..Len(rows) : i \notin targets})
    IN  [i \in 1..Len(keep) |-> rows[keep[i]]]

(* the rows left when the loop ends: those not deleted *)
RowsLeft(rows, targets, out) ==
    LET keep == SeqOfSet({i \in 1..Len(rows) : ~(i \in targets /\ out[i] = "ok")})
    IN  [i \in 1..Len(keep) |-> rows[keep[i]]]

(* the selection when the loop ends: the selected rows that are left *)
SelLeft(rows, sel, targets, out) ==
    LET keep == SeqOfSet({i \in 1..Len(rows) : ~(i \in targets /\ out[i] = "ok")})
    IN  {i \in 1..Len(keep) : keep[i] \in sel}

delete_rows(op, targets) ==
    \E confirm \in BOOLEAN, out \in [targets -> WriteOutcomes] :
        LET order == SeqOfSet(targets)
            ok == Cardinality({i \in targets : out[i] = "ok"})
            failed == Cardinality(targets) - ok
        IN  /\ Starts("main") /\ Enabled
            /\ lastOp' = op
            /\ UNCHANGED <<connected, conn_btn, action_buttons, view_open>>
            /\ MainFrame
            /\ dialog' = IF targets = {} THEN <<>> ELSE Answered(confirm)
            /\ IF targets = {}
               THEN /\ modals' = <<"info">>
                    /\ UNCHANGED <<tree, tree_sel, m_status_var, reqs, payload, counts>>
               ELSE IF Declined(confirm)
               THEN /\ modals' = <<"askyesno">>
                    /\ UNCHANGED <<tree, tree_sel, m_status_var, reqs, payload, counts>>
               ELSE /\ reqs' = [i \in 1..Len(order) |->
                                   Request("DELETE", "db", out[order[i]])]
                    /\ payload' = [i \in 1..Len(order) |-> tree[order[i]]]
                    /\ tree' = RowsLeft(tree, targets, out)
                    /\ tree_sel' = SelLeft(tree, tree_sel, targets, out)
                    /\ counts' = <<ok, failed>>
                    /\ m_status_var' = "Deleted databases"
                    /\ modals' = <<"askyesno">>
                                 \o (IF failed > 0 THEN <<"warning">> ELSE <<>>)

delete_selected == delete_rows("delete_selected", tree_sel)
delete_all == delete_rows("delete_all", 1..Len(tree))

(***************************************************************************)
(* CouchDBManager.add_db with _create_index                                 *)
(***************************************************************************)
(* _create_index called whatever the PUT answered *)
AddDbAlwaysIndexes(resp, resp2) ==
    <<Request("PUT", "db", resp), Request("POST", "index", resp2)>>

(* the requests of add_db: _create_index runs only after raise_for_status   *)
(* let the PUT through                                                      *)
AddDbRequests(resp, resp2) ==
    IF resp # "ok"
    THEN <<Request("PUT", "db", resp)>>
    ELSE <<Request("PUT", "db", resp), Request("POST", "index", resp2)>>

add_db ==
    \E result \in DbNameInputs, resp \in WriteOutcomes, resp2 \in WriteOutcomes :
        /\ Starts("main") /\ Enabled
        /\ lastOp' = "add_db"
        /\ UNCHANGED <<connected, conn_btn, action_buttons, tree_sel, view_open, counts,
                       dialog>>
        /\ MainFrame
        /\ IF result = NoneVal \/ result = <<>>
           THEN UNCHANGED <<tree, m_status_var, reqs, modals, payload>>
           ELSE IF resp # "ok"
           THEN /\ resp2 = "ok"
                /\ reqs' = AddDbRequests(resp, resp2)
                /\ m_status_var' = "Failed to create database"
                /\ modals' = <<"error">>
                /\ UNCHANGED <<tree, payload>>
           ELSE \* _create_index: its answer is not looked at, its exception printed
                /\ Len(tree) < MaxRows
                /\ reqs' = AddDbRequests(resp, resp2)
                /\ payload' = <<K_ID>>
                /\ tree' = Append(tree, result)
                /\ m_status_var' = "Created database with default index"
                /\ UNCHANGED modals

(***************************************************************************)
(* CouchDBManager.rename_db                                                 *)
(***************************************************************************)
rename_db ==
    \E result \in DbNameInputs :
        /\ Starts("main") /\ Enabled
        /\ lastOp' = "rename_db"
        /\ UNCHANGED <<connected, conn_btn, action_buttons, tree, tree_sel, view_open,
                       reqs, payload, counts, dialog>>
        /\ MainFrame
        /\ IF Cardinality(tree_sel) # 1
           THEN modals' = <<"info">> /\ UNCHANGED m_status_var
           ELSE LET old_name == tree[CHOOSE i \in tree_sel : TRUE]
                IN  IF result = NoneVal \/ result = <<>> \/ result = old_name
                    THEN UNCHANGED <<modals, m_status_var>>
                    ELSE /\ modals' = <<"info">>
                         /\ m_status_var' = "Rename operation not implemented"

(***************************************************************************)
(* CouchDBManager.create_index                                              *)
(***************************************************************************)
create_index ==
    \E name \in NameInputs, fields \in FieldsInputs, resp \in WriteOutcomes :
        /\ Starts("main") /\ Enabled
        /\ lastOp' = "create_index"
        /\ UNCHANGED <<connected, conn_btn, action_buttons, tree, tree_sel, view_open,
                       counts>>
        /\ MainFrame
        /\ IF Cardinality(tree_sel) # 1
           THEN /\ modals' = <<"info">>
                /\ UNCHANGED <<m_status_var, reqs, payload, dialog>>
           ELSE IF DialogRejected(name, fields)
           THEN /\ dialog' = <<name, fields>>
                /\ UNCHANGED <<m_status_var, reqs, modals, payload>>
           ELSE /\ dialog' = <<name, fields>>
                /\ payload' = FieldList(fields)
                /\ reqs' = <<Request("POST", "index", resp)>>
                /\ IF resp = "ok"
                   THEN /\ modals' = <<"info">>
                        /\ m_status_var' = "Created index"
                   ELSE /\ modals' = <<"error">>
                        /\ m_status_var' = "Failed to create index"

(***************************************************************************)
(* CouchDBManager.browse_db: a BrowseWindow is constructed                  *)
(***************************************************************************)
browse_db ==
    /\ Starts("main") /\ Enabled
    /\ lastOp' = "browse_db"
    /\ IF Cardinality(tree_sel) # 1
       THEN modals' = <<"info">> /\ UNCHANGED view_open
       ELSE view_open' = TRUE /\ UNCHANGED modals
    /\ UNCHANGED <<connected, conn_btn, action_buttons, tree, tree_sel, m_status_var,
                   reqs, payload, counts, dialog>>
    /\ MainFrame

(***************************************************************************)
(* The Tk event loop. A handler runs on the one thread of the interface;   *)
(* it hands control back to the loop inside self.update(), which           *)
(* dispatches what is pending, and inside a message box, whose local loop  *)
(* still fires the callbacks scheduled with after(). requests blocks.      *)
(***************************************************************************)
Frame(h, i) == [h |-> h, i |-> i]

(* the places of a handler where control leaves its code, in order: the    *)
(* message box is reached only when the request failed                      *)
Flow(h) ==
    CASE h = "load_indexes" -> <<"update", "update", "request", "modal">>
      [] h = "load_docs" -> <<"update", "request", "modal">>
      [] h = "save_doc" -> <<"update", "request", "modal">>

Buttons == {"load_indexes", "load_docs", "save_doc"}

Top == stack[Len(stack)]
At(place) == stack # <<>> /\ Top.i >= 1 /\ Flow(Top.h)[Top.i] = place
Advance(i) == [stack EXCEPT ![Len(stack)] = Frame(Top.h, i)]
Pop == SubSeq(stack, 1, Len(stack) - 1)

LoopFrame == UNCHANGED <<mainVars, docVars, idxVars, b_status_var, b_status_bar,
                         focus, histVars>>

(* the operator clicks a button; a message box holds the grab *)
click ==
    \E h \in Buttons :
        /\ ~At("modal")
        /\ Len(queue) < MaxQueue
        /\ queue' = Append(queue, h)
        /\ UNCHANGED <<stack, timers, http>>
        /\ LoopFrame

(* mainloop, or update() inside a handler, dispatches a click *)
dispatch_click ==
    /\ stack = <<>> \/ At("update")
    /\ queue # <<>>
    /\ Len(stack) < MaxDepth
    /\ stack' = Append(stack, Frame(Head(queue), 0))
    /\ queue' = Tail(queue)
    /\ UNCHANGED <<timers, http>>
    /\ LoopFrame

(* a callback scheduled by the constructor falls due: load_indexes after   *)
(* 100 ms, load_docs after 200 ms                                           *)
fire_timer ==
    \E h \in timers :
        /\ stack = <<>> \/ At("update") \/ At("modal")
        /\ h = "load_docs" => "load_indexes" \notin timers
        /\ Len(stack) < MaxDepth
        /\ stack' = Append(stack, Frame(h, 0))
        /\ timers' = timers \ {h}
        /\ UNCHANGED <<queue, http>>
        /\ LoopFrame

(* the handler on top runs to its next place; update() returns *)
run ==
    /\ stack # <<>>
    /\ Top.i < 2 \/ At("update")
    /\ Flow(Top.h)[Top.i + 1] # "modal"
    /\ stack' = Advance(Top.i + 1)
    /\ http' = IF Flow(Top.h)[Top.i + 1] = "request" THEN http + 1 ELSE http
    /\ UNCHANGED <<timers, queue>>
    /\ LoopFrame

(* the request is answered: the handler ends, or shows its message box *)
answer ==
    \E failed \in BOOLEAN :
        /\ At("request")
        /\ http' = http - 1
        /\ stack' = IF failed THEN Advance(Top.i + 1) ELSE Pop
        /\ UNCHANGED <<timers, queue>>
        /\ LoopFrame

(* the operator closes the message box and the handler ends *)
dismiss ==
    /\ At("modal")
    /\ stack' = Pop
    /\ UNCHANGED <<timers, queue, http>>
    /\ LoopFrame

(***************************************************************************)
(* Initial states and specifications.                                       *)
(***************************************************************************)
(* the main window after CouchDBManager.__init__ *)
InitMainWindow ==
    /\ connected = FALSE
    /\ conn_btn = "Connect"
    /\ action_buttons = "disabled"
    /\ tree = <<>>
    /\ tree_sel = {}
    /\ m_status_var = "Not connected"
    /\ view_open = FALSE

(* the main window after a connect and browse_db on the database DB_X *)
InitMainBrowsing ==
    /\ connected = TRUE
    /\ conn_btn = "Disconnect"
    /\ action_buttons = "normal"
    /\ tree = <<DB_X>>
    /\ tree_sel = {1}
    /\ m_status_var = "Connected"
    /\ view_open = TRUE

(* the browse view after BrowseWindow.__init__ *)
InitView ==
    /\ docs = <<>>
    /\ doc_tree = <<>>
    /\ doc_sel = 0
    /\ text = <<>>
    /\ current_doc = NoneVal
    /\ idx_tree = <<>>
    /\ idx_sel = 0
    /\ idx_src = <<>>
    /\ b_status_var = "Loading database"
    /\ b_status_bar = "Ready"

InitHist ==
    /\ lastOp = "idle"
    /\ reqs = <<>>
    /\ modals = <<>>
    /\ payload = <<>>
    /\ counts = <<0, 0>>
    /\ dialog = <<>>
    /\ sent = <<>>

InitLoopIdle ==
    /\ stack = <<>>
    /\ timers = {}
    /\ queue = <<>>
    /\ http = 0

NoRevisions == known = [id \in {} |-> Absent]

Init ==
    /\ \/ focus = "main" /\ InitMainWindow
       \/ focus \in {"documents", "indexes"} /\ InitMainBrowsing
    /\ InitView /\ InitHist /\ InitLoopIdle /\ NoRevisions

NextMain ==
    \/ toggle_connection
    \/ select_rows
    \/ select_all
    \/ delete_selected
    \/ delete_all
    \/ add_db
    \/ rename_db
    \/ create_index
    \/ browse_db

NextIndexes ==
    \/ load_indexes
    \/ select_index
    \/ add_index
    \/ delete_index

NextDocs ==
    \/ load_docs
    \/ filter_docs
    \/ show_doc
    \/ save_doc
    \/ new_doc
    \/ delete_doc
    \/ format_json
    \/ edit_text

Next == NextMain \/ NextIndexes \/ NextDocs \/ mainloop

Spec == Init /\ [][Next]_vars

(* the document pane, the revisions returned for KnownIds followed *)
InitRev ==
    /\ focus = "documents"
    /\ InitMainBrowsing /\ InitView /\ InitHist /\ InitLoopIdle
    /\ known = [id \in KnownIds |-> Absent]

NextRev ==
    \/ load_docs
    \/ show_doc
    \/ edit_text
    \/ save_doc
    \/ mainloop

SpecRev == InitRev /\ [][NextRev]_vars

(* Format JSON and Save Changes on any text the operator may have typed,   *)
(* the listed document as the server holds it included, in a view that has *)
(* loaded one document and may be showing it                                *)
TextTokens == {LC, RC, LB, RB, COMMA, COLON, SP, TNum("1e0"), TStr(<<"k">>)}
Texts == UNION {[1..n -> TextTokens] : n \in 0..MaxTextLen}

InitEditor ==
    /\ focus = "documents"
    /\ InitMainBrowsing /\ InitHist /\ InitLoopIdle /\ NoRevisions
    /\ docs = <<Member(ID_A, ServerDoc(ID_A, <<"1">>))>>
    /\ doc_tree = <<Row(ID_A, <<"1">>)>>
    /\ doc_sel = 0
    /\ text \in Texts \cup {Dumps(ServerDoc(ID_A, <<"1">>))}
    /\ current_doc \in {NoneVal, ID_A}
    /\ idx_tree = <<>>
    /\ idx_sel = 0
    /\ idx_src = <<>>
    /\ b_status_var = "Loaded documents"
    /\ b_status_bar = "Ready"

NextEditor ==
    \/ format_json
    \/ save_doc
    \/ mainloop

SpecEditor == InitEditor /\ [][NextEditor]_vars

(* the event loop after BrowseWindow.__init__ scheduled its two callbacks *)
InitLoop ==
    /\ focus = "documents"
    /\ InitMainBrowsing /\ InitView /\ InitHist /\ NoRevisions
    /\ stack = <<>>
    /\ timers = {"load_indexes", "load_docs"}
    /\ queue = <<>>
    /\ http = 0

NextLoop ==
    \/ click
    \/ dispatch_click
    \/ fire_timer
    \/ run
    \/ answer
    \/ dismiss

SpecLoop == InitLoop /\ [][NextLoop]_vars

(* The main window and a browse view side by side. BrowseWindow is a       *)
(* Toplevel that browse_db opens without grab_set or wait_window: both      *)
(* windows take input, and the view keeps the base_url and auth it was      *)
(* given. The operator works in one window at a time.                       *)
switch_window ==
    \E w \in {"main", "indexes", "documents"} :
        /\ lastOp = "idle"
        /\ w # focus
        /\ w # "main" => view_open
        /\ focus' = w
        /\ UNCHANGED <<mainVars, docVars, idxVars, b_status_var, b_status_bar, histVars,
                       loopVars>>

InitSession ==
    /\ focus = "main"
    /\ InitMainWindow /\ InitView /\ InitHist /\ InitLoopIdle /\ NoRevisions

NextSession ==
    \/ switch_window
    \/ toggle_connection
    \/ select_rows
    \/ browse_db
    \/ load_indexes
    \/ load_docs
    \/ delete_doc
    \/ mainloop

SpecSession == InitSession /\ [][NextSession]_vars

(***************************************************************************)
(* Properties.                                                              *)
(***************************************************************************)
(* a handler of ops has just run from the event loop (the step lastOp      *)
(* "idle" -> op); its record is in the primed history variables             *)
Ran(ops) == lastOp = "idle" /\ lastOp' \in ops

ErrorKinds == {"http_error", "http_error_html", "network_error"}
SaveOps == {"save_doc", "new_doc"}
CacheIds(cache) == {cache[i].key : i \in 1..Len(cache)}
RowIds(rows) == {rows[i].id : i \in 1..Len(rows)}

(* C1: when the server answers the PUT of save_doc with an error status,   *)
(* self.docs is what it was before the save and no row of the document     *)
(* list is added or changed.                                                *)
C1_RejectedSaveLeavesCache ==
    [][(/\ Ran(SaveOps)
        /\ reqs' # <<>>
        /\ reqs'[1].resp = "http_error")
       => (docs' = docs /\ doc_tree' = doc_tree)]_vars

C1_Witness ==
    /\ lastOp \in SaveOps
    /\ reqs # <<>> /\ reqs[1].m = "PUT" /\ reqs[1].resp = "http_error"
    /\ docs # <<>>
    /\ doc_tree # <<>>

(* C2: every _rev the view sends for a document id (the rev parameter of   *)
(* delete_doc, the _rev in the body of save_doc's PUT, the operator having  *)
(* left _rev alone) is the revision the server returned last for that id.   *)
C2_SentRevIsLatest ==
    [][\A i \in DOMAIN sent' :
          (Ran({"save_doc", "new_doc", "delete_doc"}) /\ sent'[i].rev # Absent)
          => sent'[i].rev = known[sent'[i].id]]_vars

(* C3: when a request of an operation fails with a network error or an     *)
(* HTTP error status, the operation shows an error or warning box and       *)
(* leaves a failure message in the status line, never a success message.    *)
StatusLine == IF focus = "main" THEN m_status_var ELSE b_status_var
SuccessStatuses ==
    {"Connected", "Created database with default index", "Created index",
     "Loaded indexes", "Deleted index", "Loaded documents", "Saved document",
     "Deleted document"}

C3_FailureIsSurfaced ==
    (\E i \in DOMAIN reqs : reqs[i].resp \in ErrorKinds)
    => /\ \E j \in DOMAIN modals : modals[j] \in {"error", "warning"}
       /\ StatusLine \notin SuccessStatuses

C5_EmptyFieldsNoRequest ==
    [][(/\ Ran({"create_index", "add_index"})
        /\ dialog' # <<>>
        /\ dialog'[2] = <<>>)
       => /\ reqs' = <<>>
          /\ idx_tree' = idx_tree
          /\ b_status_var' = b_status_var
          /\ m_status_var' = m_status_var]_vars

C5_Witness ==
    /\ lastOp \in {"create_index", "add_index"}
    /\ dialog # <<>>
    /\ dialog[1] # <<>>
    /\ dialog[2] = <<>>
    /\ reqs = <<>>

(* C6: when the editor text is not valid JSON, save_doc reports the parse  *)
(* error, issues no request and leaves the cache, the document list and     *)
(* current_doc as they were.                                                *)
Count(t, tok) == Cardinality({i \in DOMAIN t : t[i] = tok})
(* text that no JSON grammar accepts: its braces or brackets do not pair up *)
Unbalanced(t) == Count(t, LC) # Count(t, RC) \/ Count(t, LB) # Count(t, RB)

C6_InvalidJsonNoRequest ==
    [][(Ran({"save_doc"}) /\ Unbalanced(text))
       => /\ reqs' = <<>>
          /\ modals' = <<"error">>
          /\ docs' = docs
          /\ doc_tree' = doc_tree
          /\ current_doc' = current_doc]_vars

C6_Witness ==
    /\ lastOp = "save_doc"
    /\ Unbalanced(text)
    /\ Len(text) = MaxTextLen
    /\ modals = <<"error">>
    /\ docs # <<>>
    /\ current_doc = ID_A

(* C7, as stated: no user action results in more than one HTTP request.    *)
C7_SingleRequest == Len(reqs) <= 1

(* C7, amended: connect, create_index, load_indexes, load_docs, save_doc,  *)
(* new_doc and delete_doc issue at most one request; add_db issues the PUT  *)
(* and, when the PUT was accepted, the POST of the default index;           *)
(* add_index and delete_index issue their request and, when it was          *)
(* accepted, the GET of load_indexes; delete_selected and delete_all issue  *)
(* one DELETE per targeted row; no handler sends a request again after it   *)
(* failed.                                                                  *)
C7_RequestsPerAction ==
    /\ lastOp \in {"connect", "create_index", "load_indexes", "load_docs",
                   "save_doc", "new_doc", "delete_doc"}
       => Len(reqs) <= 1
    /\ lastOp \in {"disconnect", "select_all", "rename_db", "browse_db",
                   "filter_docs", "show_doc", "format_json", "idle"}
       => reqs = <<>>
    /\ lastOp = "add_db"
       => /\ Len(reqs) <= 2
          /\ Len(reqs) = 2
             => /\ reqs[1] = Request("PUT", "db", "ok")
                /\ reqs[2].m = "POST" /\ reqs[2].kind = "index"
    /\ lastOp \in {"add_index", "delete_index"}
       => /\ Len(reqs) <= 2
          /\ Len(reqs) = 2
             => /\ reqs[1].resp = "ok"
                /\ reqs[2].m = "GET" /\ reqs[2].kind = "index"
    /\ lastOp \in {"delete_selected", "delete_all"}
       => /\ Len(reqs) = Len(payload)
          /\ Len(reqs) = counts[1] + counts[2]
          /\ \A i \in DOMAIN reqs : reqs[i].m = "DELETE" /\ reqs[i].kind = "db"

C7_Witness ==
    /\ lastOp = "add_db"
    /\ Len(reqs) = 2
    /\ reqs[2].resp \in ErrorKinds

(* C8: no handler starts while another has started and not finished, and   *)
(* at most one HTTP request is outstanding.                                 *)
C8_OneHandlerInFlight == Len(stack) <= 1 /\ http <= 1

(* C9: load_indexes renders each index of the answer as one row, in server *)
(* order: the ddoc with its _design/ prefix removed (empty for null), the   *)
(* name, the fields joined with ", ", {k: v} shown as k:v.                  *)
PrefixRemoved(ddoc) ==
    IF ddoc = NoneVal THEN <<>>
    ELSE IF StartsWith(ddoc, DESIGN)
         THEN SubSeq(ddoc, Len(DESIGN) + 1, Len(ddoc))
         ELSE ddoc

C9_RowsRenderIndexes ==
    /\ Len(idx_tree) = Len(idx_src)
    /\ \A i \in 1..Len(idx_src) :
           idx_tree[i] = IdxRow(PrefixRemoved(idx_src[i].ddoc), idx_src[i].name,
                                FieldsColumn(idx_src[i].fields))

(* C10: on valid JSON text format_json leaves text that parses to the same *)
(* value, a second format_json leaves that text as it is, and format_json   *)
(* issues no request and changes neither the cache, the document list nor   *)
(* current_doc.                                                             *)
C10_FormatPreservesValue ==
    [][(Ran({"format_json"}) /\ Loads(Strip(TextGet(text))).ok)
       => /\ Loads(Strip(TextGet(text'))).ok
          /\ Loads(Strip(TextGet(text'))).val = Loads(Strip(TextGet(text))).val
          /\ Formatted(text') = text'
          /\ reqs' = <<>>
          /\ docs' = docs
          /\ doc_tree' = doc_tree
          /\ current_doc' = current_doc]_vars

C10_Witness ==
    /\ lastOp = "format_json"
    /\ modals = <<>>
    /\ \E i \in DOMAIN text : text[i] = NL
    /\ \E i \in DOMAIN text : text[i] = TNum("1.0")

(* C11: a New Document dialog left blank and not cancelled sends one        *)
(* request that addresses a document of the database, to be created under  *)
(* an id the server chooses, and when the server accepts it the returned id *)
(* is current_doc, a row of the document list and a key of the cache; a     *)
(* cancelled dialog sends no request and changes nothing.                   *)
C11_BlankIdCreatesDocument ==
    [][Ran({"new_doc"})
       => /\ (dialog' = <<<<>>>>)
              => /\ Len(reqs') = 1
                 /\ reqs'[1].kind = "doc"
                 /\ (reqs'[1].resp = "ok")
                        => current_doc' \in RowIds(doc_tree') \cap CacheIds(docs')
          /\ (dialog' = <<NoneVal>>)
              => /\ reqs' = <<>>
                 /\ UNCHANGED <<docVars, b_status_var>>]_vars

(* C12: a handler sends a DELETE request only if it is delete_selected,     *)
(* delete_all, delete_index or delete_doc and the operator answered yes to  *)
(* its confirmation; when one of these four is declined, or has nothing     *)
(* selected, it sends no request and leaves the database list, the index    *)
(* list, the document list, the cache and the editor as they were.          *)
DeleteOps == {"delete_selected", "delete_all", "delete_index", "delete_doc"}

C12_NoDeleteWithoutYes ==
    [][(lastOp = "idle" /\ lastOp' # "idle")
       => /\ (\E i \in DOMAIN reqs' : reqs'[i].m = "DELETE")
              => (lastOp' \in DeleteOps /\ dialog' = Answered(TRUE))
          /\ (lastOp' \in DeleteOps /\ dialog' # Answered(TRUE))
              => /\ reqs' = <<>>
                 /\ UNCHANGED <<tree, tree_sel, idxVars, docVars>>]_vars

C12_Witness ==
    /\ lastOp = "delete_doc"
    /\ dialog = Answered(FALSE)
    /\ reqs = <<>>
    /\ doc_sel # 0
    /\ docs # <<>>
    /\ text # <<>>

(* C13: in the main window connected is true exactly when the action       *)
(* buttons are enabled and exactly when the connection button reads         *)
(* "Disconnect"; while connected is false the database list is empty; and   *)
(* a connect whose request failed leaves connected false.                   *)
C13_ConnectionConsistent ==
    /\ connected <=> action_buttons = "normal"
    /\ connected <=> conn_btn = "Disconnect"
    /\ ~connected => tree = <<>>
    /\ (lastOp = "connect" /\ reqs[1].resp \in ErrorKinds) => ~connected

C13_Witness ==
    /\ focus = "main"
    /\ lastOp = "disconnect"
    /\ ~connected
    /\ conn_btn = "Connect"
    /\ action_buttons = "disabled"
    /\ tree = <<>>

(* C14: a confirmed delete_selected or delete_all sends exactly one DELETE *)
(* for every targeted row, in list order and whatever the earlier ones      *)
(* answered; the rows gone from the database list are exactly the targeted  *)
(* rows whose DELETE succeeded, and the success count is their number and   *)
(* the failure count the number of the other targeted rows.                 *)
RECURSIVE Remaining(_, _)
Remaining(rows, gone) ==
    IF rows = <<>> THEN <<>>
    ELSE Remaining(SubSeq(rows, 1, Len(rows) - 1), gone)
         \o (IF Len(rows) \in gone THEN <<>> ELSE <<rows[Len(rows)]>>)

C14_OneDeletePerTarget ==
    [][(Ran({"delete_selected", "delete_all"}) /\ dialog' = Answered(TRUE))
       => LET targets == IF lastOp' = "delete_selected" THEN tree_sel
                         ELSE 1..Len(tree)
              order == SeqOfSet(targets)
              deleted == {order[i] : i \in {j \in DOMAIN reqs' : reqs'[j].resp = "ok"}}
          IN  /\ Len(reqs') = Cardinality(targets)
              /\ \A i \in DOMAIN reqs' :
                     /\ reqs'[i].m = "DELETE" /\ reqs'[i].kind = "db"
                     /\ payload'[i] = tree[order[i]]
              /\ tree' = Remaining(tree, deleted)
              /\ counts'[1] = Cardinality(deleted)
              /\ counts'[1] + counts'[2] = Cardinality(targets)]_vars

C14_Witness ==
    /\ lastOp = "delete_selected"
    /\ Len(reqs) = 2
    /\ reqs[1].resp \in ErrorKinds /\ reqs[2].resp = "ok"
    /\ tree = <<DB_X>>
    /\ counts = <<1, 1>>
    /\ modals = <<"askyesno", "warning">>

(* C15: a confirmed delete_index sends its DELETE to the path made of the   *)
(* ddoc and the name the server reported for the selected row, for every    *)
(* index of the answer: one whose ddoc is null and one whose design-        *)
(* document name contains _design/ included.                               *)
C15_DeleteTargetsReportedIndex ==
    [][(Ran({"delete_index"}) /\ dialog' = Answered(TRUE))
       => payload' = <<idx_src[idx_sel].ddoc, idx_src[idx_sel].name>>]_vars

(* C16: once an operation of a browse view has run, the text of the view's   *)
(* status bar label is the status message most recently set, the value of    *)
(* the variable the browse operations write to.                              *)
C16_StatusBarShowsStatus ==
    (focus \in {"indexes", "documents"} /\ lastOp # "idle")
        => b_status_bar = b_status_var

(* C17: in a browse view the document list holds at most one row per       *)
(* document id, every row's id is a key of the cache, and every row's       *)
(* revision is the _rev of the cached document with that id.                *)
C17_ListConsistentWithCache ==
    /\ \A i, j \in DOMAIN doc_tree : doc_tree[i].id = doc_tree[j].id => i = j
    /\ \A i \in DOMAIN doc_tree :
           /\ doc_tree[i].id \in CacheIds(docs)
           /\ doc_tree[i].rev = RevOf(GetKey(docs, doc_tree[i].id, JNull))

(* C18: while the main window is disconnected the only handler that sends   *)
(* a request is connect: no operation of the main window and no operation   *)
(* of a browse view opened while connected reaches the server.              *)
C18_NoRequestWhileDisconnected ==
    (~connected /\ reqs # <<>>) => lastOp = "connect"

=============================================================================
